---------------------------- MODULE Spec2Model ----------------------------
(***************************************************************************)
(* Session state machine of the SpyEngine story game.                      *)
(*                                                                         *)
(* One player (user) is served by the GameEngine objects of Engines; each  *)
(* engine owns a GameState (in-memory fields) and its own ORM session on   *)
(* the shared store.  The store holds the committed rows: stories, story   *)
(* nodes, missions and the player's UserProgress row.  Every handler       *)
(* ends with a commit or a rollback, so an ORM session carries no pending  *)
(* change from one action to the next: an action reads the committed rows, *)
(* works on local copies and either commits them or drops them.  A commit  *)
(* makes every pending change of the session durable.                      *)
(*                                                                         *)
(* Ids are positive integers handed out by store sequences; 0 stands for   *)
(* None.  make_choice is three actions: up to the resolution of the        *)
(* current node; from there to the commit made by increment_node_count;    *)
(* and from the call of the generation collaborator to the final commit or *)
(* rollback.                                                               *)
(***************************************************************************)
EXTENDS Integers, Sequences, FiniteSets, TLC

\* ------------------------------------------------------------------ bounds
\* Caps of the store's id sequences, of node_count and of the clock.  Each
\* specification has its own record of caps (see the end of the module).
Engines == {1, 2}          \* GameEngine objects that can serve the player
Chars == {1, 2}            \* characters a node's metadata can list
Names == {"ada", "bob"}    \* protagonist names of a form

Signals == {"unchanged", "progressed", "completed", "failed"}

VARIABLES
    dbStories,     \* committed StoryGeneration ids
    dbNodes,       \* committed StoryNode rows: id -> row
    dbMissions,    \* committed Mission rows: id -> row
    dbUP,          \* the player's committed UserProgress row
    dbUPOther,     \* the committed UserProgress row of another user
    nextStory, nextNode, nextMission,  \* store id sequences
    clock,         \* last value read from the clock
    eng,           \* eng[e]: in-memory fields of engine e's GameState
    pc,            \* pc[e]: "idle", or "resolved", "generating" in make_choice
    loc,           \* loc[e]: locals of the make_choice in flight
    listeners,     \* state_manager._listeners, in registration order
    dbArcs,        \* committed PlotArc rows (written outside these modules)
    out            \* the last operation performed and its outcome

vars == <<dbStories, dbNodes, dbMissions, dbUP, dbUPOther, nextStory, nextNode,
          nextMission, clock, eng, pc, loc, listeners, dbArcs, out>>

\* ----------------------------------------------------------------- helpers
Max(a, b) == IF a >= b THEN a ELSE b
Min(a, b) == IF a <= b THEN a ELSE b

InSeq(x, s) == \E i \in 1..Len(s) : s[i] = x

\* A removal that leaves the list as it is (C19 tells it from list.remove).
RemoveNothing(s, x) == s

\* list.remove(x): drop the first occurrence of x
RemoveFirst(s, x) ==
    IF ~InSeq(x, s) THEN s
    ELSE LET i == CHOOSE k \in 1..Len(s) :
                     s[k] = x /\ \A j \in 1..(k-1) : s[j] # x
         IN  SubSeq(s, 1, i-1) \o SubSeq(s, i+1, Len(s))

NodeIds == DOMAIN dbNodes
MissionIds == DOMAIN dbMissions

\* the values datetime.utcnow() can return now (b: the caps in force)
Now(b) == {t \in {clock, clock + 1} : t <= b.clock}

\* The lengths of the narrative texts the generation calls can return under
\* the caps b (a text is modelled by its number of characters)
TextLengths(b) == IF "texts" \in DOMAIN b THEN b.texts ELSE {1}

\* currency_balances holds no bucket for the missions' reward currency
NoBucket == -1

EmptyUP ==
    [current_story_id |-> 0, current_node_id |-> 0, node_count |-> 0,
     choice_history |-> <<>>, encountered |-> [c \in Chars |-> 0],
     active_missions |-> <<>>, completed_missions |-> <<>>,
     failed_missions |-> <<>>, last_active |-> 0, balance |-> NoBucket,
     rel |-> [c \in Chars |-> 0]]

\* e: the engine; story: the story id asked for; cur: the node the operation
\* resolved as current; node: the node it returned or created (0: none);
\* mission: the mission id it was called with, or make_choice's active
\* mission; signal: the mission_update status make_choice was given;
\* text: the scenes of the context get_enhanced_context returned; value: the
\* progress in percent update_mission was called with
NoOut == [e |-> 0, op |-> "none", result |-> "none", story |-> 0, cur |-> 0,
          node |-> 0, mission |-> 0, signal |-> "none", text |-> <<>>,
          value |-> 0, notes |-> <<>>, listener |-> "none", parts |-> <<>>]
Outcome(e, op, result) == [NoOut EXCEPT !.e = e, !.op = op, !.result = result]
NoLoc == [story |-> 0, cur |-> 0, am |-> 0, pre_count |-> 0]

\* The listeners of the module: web_listener, registered when the module is
\* loaded, and three UnityStateListener objects
Listeners == {"web", "unity1", "unity2", "unity3"}

\* A _notify_listeners that calls on_state_changed on the registry from its
\* last listener to its first (C40 tells it from the code's order).
NotifyListenersReversed(ls, site) ==
    [i \in 1..Len(ls) |-> [to |-> ls[Len(ls) + 1 - i], site |-> site]]

\* _notify_listeners(): one on_state_changed per entry of the registry, in
\* its order.  site: the update_state or load_state call that notifies
NotifyListeners(ls, site) ==
    [i \in 1..Len(ls) |-> [to |-> ls[i], site |-> site]]

\* GameState.__init__ before reload_state
\* (departed is not a field of the code: it logs every node this GameState
\* left through transition_to_node, oldest first)
FreshState ==
    [node_count |-> 0, current_node |-> 0, current_story |-> 0,
     active_missions |-> {}, buffer |-> <<>>, departed |-> <<>>]

\* ------------------------------------------------------------ reload_state
\* GameState.reload_state: refresh the row; story, node and missions are
\* replaced only when the row names one; node_count always.
ReloadState(g, up) ==
    [g EXCEPT
       !.current_story = IF up.current_story_id # 0
                         THEN (IF up.current_story_id \in dbStories
                               THEN up.current_story_id ELSE 0)
                         ELSE @,
       !.current_node = IF up.current_node_id # 0
                        THEN (IF up.current_node_id \in NodeIds
                              THEN up.current_node_id ELSE 0)
                        ELSE @,
       !.active_missions = IF up.active_missions # <<>>
                           THEN {m \in MissionIds : InSeq(m, up.active_missions)}
                           ELSE @,
       !.node_count = up.node_count]

\* ---------------------------------------------------- resolve_current_node
NodesOf(nodes, sid) == {n \in DOMAIN nodes : nodes[n].story_id = sid}

\* order_by(created_at.asc()).first(): the oldest rows (C8 tells it from
\* the code's descending order)
OldestNodes(nodes, sid) ==
    {n \in NodesOf(nodes, sid) :
        \A m \in NodesOf(nodes, sid) : nodes[n].created_at <= nodes[m].created_at}

\* order_by(created_at.desc()).first(): the rows the store may return
LatestNodes(nodes, sid) ==
    {n \in NodesOf(nodes, sid) :
        \A m \in NodesOf(nodes, sid) : nodes[m].created_at <= nodes[n].created_at}

RootNodes(nodes, sid) ==
    {n \in NodesOf(nodes, sid) : nodes[n].parent_node_id = 0}

\* A resolver that asks for the latest node before it looks at the pointer
\* (C6 tells it from the code's order of priorities).
ResolveLatestFirst(g, up, nodes, story_id, storeOk) ==
    LET target == IF story_id # 0 THEN story_id ELSE g.current_story
        ptr == up.current_node_id
    IN  IF ~storeOk THEN {0}
        ELSE IF target = 0 \/ target \notin dbStories THEN {0}
        ELSE IF LatestNodes(nodes, target) # {} THEN LatestNodes(nodes, target)
        ELSE IF ptr # 0 /\ ptr \in DOMAIN nodes /\ nodes[ptr].story_id = target
             THEN {ptr}
        ELSE IF RootNodes(nodes, target) # {} THEN RootNodes(nodes, target)
        ELSE {0}

\* A resolver that trusts the pointer without comparing its story (C7 tells
\* it from the code's validation).
ResolveAnyStory(g, up, nodes, story_id, storeOk) ==
    LET target == IF story_id # 0 THEN story_id ELSE g.current_story
        ptr == up.current_node_id
    IN  IF ~storeOk THEN {0}
        ELSE IF target = 0 \/ target \notin dbStories THEN {0}
        ELSE IF ptr # 0 /\ ptr \in DOMAIN nodes THEN {ptr}
        ELSE IF LatestNodes(nodes, target) # {} THEN LatestNodes(nodes, target)
        ELSE IF RootNodes(nodes, target) # {} THEN RootNodes(nodes, target)
        ELSE {0}

\* The set of results resolve_current_node(story_id) can return; 0 is None.
\* storeOk = FALSE: a store lookup raises, which the method turns into None.
ResolveCurrentNode(g, up, nodes, story_id, storeOk) ==
    LET target == IF story_id # 0 THEN story_id ELSE g.current_story
        ptr == up.current_node_id
    IN  IF ~storeOk THEN {0}
        ELSE IF target = 0 \/ target \notin dbStories THEN {0}
        ELSE IF ptr # 0 /\ ptr \in DOMAIN nodes /\ nodes[ptr].story_id = target
             THEN {ptr}
        ELSE IF LatestNodes(nodes, target) # {} THEN LatestNodes(nodes, target)
        ELSE IF RootNodes(nodes, target) # {} THEN RootNodes(nodes, target)
        ELSE {0}

\* -------------------------------------------------------------------- Init
Init ==
    /\ dbStories = {}
    /\ dbNodes = <<>>
    /\ dbMissions = <<>>
    /\ dbUP = EmptyUP
    /\ dbUPOther = EmptyUP
    /\ nextStory = 1 /\ nextNode = 1 /\ nextMission = 1
    /\ clock = 0
    /\ eng = [e \in Engines |-> FreshState]
    /\ pc = [e \in Engines |-> "idle"]
    /\ loc = [e \in Engines |-> NoLoc]
    /\ listeners = <<"web">>
    /\ dbArcs = {}
    /\ out = NoOut

\* ------------------------------------------------------------ GameEngine()
\* A new GameEngine object replaces engine e: a fresh GameState loaded from
\* the player's row (the row exists from the first construction on).
NewEngine(e) ==
    /\ pc[e] = "idle"
    /\ eng' = [eng EXCEPT ![e] = ReloadState(FreshState, dbUP)]
    /\ out' = Outcome(e, "new_engine", "ok")
    /\ UNCHANGED <<dbArcs, listeners, dbStories, dbUPOther, dbNodes, dbMissions, dbUP, nextStory, nextNode,
                   nextMission, clock, pc, loc>>

\* --------------------------------------------------------- start_new_story
\* The protagonist check of start_new_story: the stored pointer names a node
\* whose protagonist name differs from the requested one.
ProtagonistMismatch(up, name) ==
    LET ptr == up.current_node_id
    IN  /\ ptr # 0 /\ name # ""
        /\ ptr \in NodeIds
        /\ dbNodes[ptr].protagonist # ""
        /\ dbNodes[ptr].protagonist # name

\* "Reset progress fields" (committed at once)
ResetProgress(up, now) ==
    [up EXCEPT !.current_story_id = 0, !.current_node_id = 0,
               !.node_count = 0, !.active_missions = <<>>,
               !.completed_missions = <<>>, !.failed_missions = <<>>,
               !.choice_history = <<>>,
               !.encountered = [c \in Chars |-> 0],
               !.rel = [c \in Chars |-> 0],
               !.last_active = now]

\* reward_amount of the initial mission
RewardAmount == 1500

\* An entry of progress_updates: its status (kind) and its progress, -1 for
\* an entry without one
Entry(kind, progress) == [kind |-> kind, progress |-> progress]

\* (credited is not a field of the code: it counts the times the mission's
\* reward was added to the balance; nupd is len(progress_updates) and log is
\* progress_updates itself)
InitialMission(sid) ==
    [status |-> "active", progress |-> 0, nupd |-> 1, story_id |-> sid,
     reward |-> RewardAmount, credited |-> 0,
     log |-> <<Entry("active", 0)>>, giver_id |-> 0, target_id |-> 0]

\* start_new_story(form_data).  fail: "none"; "gen" (generate_story or the
\* client raises); "commit" (the store rejects the final commit).
StartNewStory(e, name, fail, b) ==
    /\ pc[e] = "idle"
    /\ \E now \in Now(b), text \in TextLengths(b) :
         LET mismatch == ProtagonistMismatch(dbUP, name)
             up1 == IF mismatch THEN ResetProgress(dbUP, now) ELSE dbUP
             g1 == IF mismatch THEN ReloadState(eng[e], up1) ELSE eng[e]
             sid == nextStory
             nid == nextNode
             mid == nextMission
             up2 == [up1 EXCEPT !.current_story_id = sid,
                                !.current_node_id = nid,
                                !.last_active = now]
             root == [story_id |-> sid, parent_node_id |-> 0,
                      created_at |-> now, protagonist |-> name, enc |-> {},
                      narrative_text |-> text, mission_info |-> FALSE]
         IN  IF fail = "gen"
             THEN /\ dbUP' = up1
                  /\ eng' = [eng EXCEPT ![e] = g1]
                  /\ clock' = IF mismatch THEN now ELSE clock
                  /\ out' = Outcome(e, "start_new_story", "generation_failed")
                  /\ UNCHANGED <<dbStories, dbNodes, dbMissions, nextStory,
                                 nextNode, nextMission>>
             ELSE /\ sid <= b.stories /\ nid <= b.nodes /\ mid <= b.missions
                  /\ clock' = now
                  /\ nextStory' = sid + 1
                  /\ nextNode' = nid + 1
                  /\ IF fail = "none"
                     THEN /\ dbStories' = dbStories \cup {sid}
                          /\ dbNodes' = dbNodes @@ (nid :> root)
                          /\ dbMissions' = dbMissions @@ (mid :> InitialMission(sid))
                          /\ dbUP' = up2
                          /\ nextMission' = mid + 1
                          /\ eng' = [eng EXCEPT ![e] =
                                       [g1 EXCEPT !.current_story = sid,
                                                  !.current_node = nid,
                                                  !.active_missions = {mid}]]
                          /\ out' = [Outcome(e, "start_new_story", "ok")
                                         EXCEPT !.story = sid, !.node = nid,
                                                !.notes = NotifyListeners(
                                                    listeners, "start_new_story")]
                     ELSE /\ dbUP' = up1
                          /\ eng' = [eng EXCEPT ![e] =
                                       [g1 EXCEPT !.current_story = sid,
                                                  !.current_node = nid,
                                                  !.active_missions = {}]]
                          /\ out' = Outcome(e, "start_new_story", "store_failed")
                          /\ UNCHANGED <<dbStories, dbNodes, dbMissions,
                                         nextMission>>
    /\ UNCHANGED <<pc, loc, dbUPOther, listeners, dbArcs>>

\* ---------------------------------------------------------------- missions
\* int(progress * 100) applied to progress = p / 100.0 (IEEE doubles)
ToPct(p) ==
    IF p = 29 THEN 28 ELSE IF p = 57 THEN 56 ELSE IF p = 58 THEN 57 ELSE p

\* An update_progress that stores the value as it comes (C31 tells it from
\* the clamping one).
UpdateProgressUnclamped(m, value) ==
    [m EXCEPT !.progress = value, !.nupd = @ + 1,
              !.log = Append(@, Entry("update", value))]

\* Mission.update_progress: clamp, append an audit entry, keep the status
UpdateProgress(m, value) ==
    [m EXCEPT !.progress = Max(0, Min(100, value)), !.nupd = @ + 1,
              !.log = Append(@, Entry("update", Max(0, Min(100, value))))]

\* update_mission_progress(mission_id, progress) on the session's missions
UpdateMissionProgress(ms, mid, value) ==
    IF mid \in DOMAIN ms
    THEN [ms EXCEPT ![mid] = UpdateProgress(@, value)]
    ELSE ms

\* A credit that sets the bucket to the reward whether or not the bucket
\* exists (C20 tells it from the code's addition).
CreditOverwrite(balance, amount) == amount

\* "Add currency reward": the bucket is created at the amount or raised by it
Credit(balance, amount) ==
    IF balance = NoBucket THEN amount ELSE balance + amount

\* An append that starts the list anew with the entry (C32 tells it from
\* the code's append).
ReplaceLog(log, entry) == <<entry>>

\* if not mission.progress_updates: mission.progress_updates = []
\* mission.progress_updates.append(entry)
AppendEntry(log, entry) == Append(log, entry)

\* user_progress.change_character_relationship(character_id, change_amount,
\* reason): the record starts at level 0 and the amount is added, unclamped
ChangeCharacterRelationship(rel, c, amount) == [rel EXCEPT ![c] = @ + amount]

\* A complete_mission that leaves the target's relationship alone (C33 tells
\* it from the code, which lowers it by 3).
CompleteRelationshipsGiverOnly(rel, m) ==
    IF m.giver_id # 0 THEN ChangeCharacterRelationship(rel, m.giver_id, 2)
    ELSE rel

\* complete_mission's relationship changes: +2 toward the giver, then -3
\* toward the target, each only if the mission names the character
CompleteRelationships(rel, m) ==
    LET r1 == IF m.giver_id # 0
              THEN ChangeCharacterRelationship(rel, m.giver_id, 2) ELSE rel
    IN  IF m.target_id # 0
        THEN ChangeCharacterRelationship(r1, m.target_id, -3) ELSE r1

\* fail_mission's relationship change: -1 toward the giver, if there is one
FailRelationships(rel, m) ==
    IF m.giver_id # 0 THEN ChangeCharacterRelationship(rel, m.giver_id, -1)
    ELSE rel

\* A complete_mission that does not look at the mission's status (C17 tells
\* it from the code's guard).
CompleteMissionAnyStatus(ms, up, mid) ==
    IF mid \notin DOMAIN ms
    THEN [ok |-> FALSE, ms |-> ms, up |-> up]
    ELSE [ok |-> TRUE,
          ms |-> [ms EXCEPT ![mid] = [@ EXCEPT !.status = "completed",
                                               !.progress = 100,
                                               !.nupd = @ + 1,
                                               !.log = AppendEntry(@,
                                                   Entry("completed", 100)),
                                               !.credited = @ + 1]],
          up |-> [up EXCEPT
                    !.active_missions = RemoveFirst(@, mid),
                    !.completed_missions = Append(@, mid),
                    !.balance = Credit(@, ms[mid].reward),
                    !.rel = CompleteRelationships(@, ms[mid])]]

\* complete_mission(mission_id, user_id); ok = TRUE means it committed
CompleteMission(ms, up, mid) ==
    IF mid \notin DOMAIN ms \/ ms[mid].status # "active"
    THEN [ok |-> FALSE, ms |-> ms, up |-> up]
    ELSE [ok |-> TRUE,
          ms |-> [ms EXCEPT ![mid] = [@ EXCEPT !.status = "completed",
                                               !.progress = 100,
                                               !.nupd = @ + 1,
                                               !.log = AppendEntry(@,
                                                   Entry("completed", 100)),
                                               !.credited = @ + 1]],
          up |-> [up EXCEPT
                    !.active_missions = RemoveFirst(@, mid),
                    !.completed_missions = Append(@, mid),
                    !.balance = Credit(@, ms[mid].reward),
                    !.rel = CompleteRelationships(@, ms[mid])]]

\* A fail_mission that also takes the mission's progress back to 0 (C21 tells
\* it from the code, which leaves the progress alone).
FailMissionResetsProgress(ms, up, mid) ==
    IF mid \notin DOMAIN ms \/ ms[mid].status # "active"
    THEN [ok |-> FALSE, ms |-> ms, up |-> up]
    ELSE [ok |-> TRUE,
          ms |-> [ms EXCEPT ![mid] = [@ EXCEPT !.status = "failed",
                                               !.progress = 0,
                                               !.nupd = @ + 1,
                                               !.log = AppendEntry(@,
                                                   Entry("failed", -1))]],
          up |-> [up EXCEPT
                    !.active_missions = RemoveFirst(@, mid),
                    !.failed_missions = Append(@, mid),
                    !.rel = FailRelationships(@, ms[mid])]]

\* fail_mission(mission_id, user_id, reason); ok = TRUE means it committed
FailMission(ms, up, mid) ==
    IF mid \notin DOMAIN ms \/ ms[mid].status # "active"
    THEN [ok |-> FALSE, ms |-> ms, up |-> up]
    ELSE [ok |-> TRUE,
          ms |-> [ms EXCEPT ![mid] = [@ EXCEPT !.status = "failed",
                                               !.nupd = @ + 1,
                                               !.log = AppendEntry(@,
                                                   Entry("failed", -1))]],
          up |-> [up EXCEPT
                    !.active_missions = RemoveFirst(@, mid),
                    !.failed_missions = Append(@, mid),
                    !.rel = FailRelationships(@, ms[mid])]]

\* GameEngine.update_mission(mission_id, progress) with progress = np / 100.0.
\* ms, up: the session's rows afterwards; committed: complete_mission
\* committed, and cms, cup are the rows as of that commit.
UpdateMission(ms, up, mid, np) ==
    IF mid \notin DOMAIN ms
    THEN [ms |-> ms, up |-> up, committed |-> FALSE, cms |-> ms, cup |-> up]
    ELSE LET ms1 == UpdateMissionProgress(ms, mid, ToPct(np))
             c == CompleteMission(ms1, up, mid)
         IN  IF ms1[mid].progress >= 100 /\ c.ok
             THEN [ms |-> c.ms,
                   up |-> [c.up EXCEPT !.completed_missions = Append(@, mid)],
                   committed |-> TRUE, cms |-> c.ms, cup |-> c.up]
             ELSE [ms |-> ms1, up |-> up, committed |-> FALSE,
                   cms |-> ms, cup |-> up]

\* "Update missions based on choice": +10 for every mission of the in-memory
\* active_missions list
FlatIncrement(ms, active) ==
    [m \in DOMAIN ms |->
        IF m \in active THEN UpdateProgress(ms[m], ms[m].progress + 10)
        ELSE ms[m]]

\* -------------------------------------------------------- transition_to_node
MaxHistoryNodes == 3

\* A history buffer that refuses the new entry when it is full, keeping the
\* oldest three (C10 tells it from the code's eviction).
UpdateStoryHistoryKeepOldest(buffer, n) ==
    IF Len(buffer) >= MaxHistoryNodes THEN buffer ELSE Append(buffer, n)

\* GameState._update_story_history
UpdateStoryHistory(buffer, n) ==
    LET b == Append(buffer, n)
    IN  IF Len(b) > MaxHistoryNodes THEN Tail(b) ELSE b

\* A choice history that skips the append only when the node is its last
\* entry (C14 tells it from the code's membership test).
AppendChoiceUnlessLast(h, nid) ==
    IF h # <<>> /\ h[Len(h)] = nid THEN h ELSE Append(h, nid)

\* "if node_id not in choice_history: append"
AppendChoice(h, nid) == IF InSeq(nid, h) THEN h ELSE Append(h, nid)

\* A merge that stores the arriving node's snapshot for every character the
\* node lists (C15 tells it from the code's "only add if not present").
MergeEncounteredOverwrite(enc, listed, nid) ==
    [c \in Chars |-> IF c \in listed THEN nid ELSE enc[c]]

\* "Merge encountered characters into user progress": enc[c] is the node
\* whose snapshot of character c is stored (0: no entry); listed: the
\* characters of the arriving node nid
MergeEncountered(enc, listed, nid) ==
    [c \in Chars |-> IF c \in listed /\ enc[c] = 0 THEN nid ELSE enc[c]]

\* A transition that pushes the departed node before it validates the id
\* (C13 tells it from the code's order).
TransitionPushFirst(g, up, nodes, nid, now) ==
    LET g1 == [g EXCEPT
                 !.buffer = IF g.current_node # 0
                            THEN UpdateStoryHistory(@, g.current_node)
                            ELSE @,
                 !.departed = IF g.current_node # 0
                              THEN Append(@, g.current_node)
                              ELSE @]
    IN  IF nid \notin DOMAIN nodes
        THEN [ok |-> FALSE, g |-> g1, up |-> up]
        ELSE [ok |-> TRUE,
              g |-> [g1 EXCEPT !.current_node = nid],
              up |-> [up EXCEPT
                        !.current_node_id = nid,
                        !.last_active = now,
                        !.choice_history = AppendChoice(@, nid),
                        !.encountered =
                            MergeEncountered(@, nodes[nid].enc, nid)]]

\* GameState.transition_to_node(node_id) on the session's rows; ok = FALSE is
\* the ValueError for an id that names no node
TransitionToNode(g, up, nodes, nid, now) ==
    IF nid \notin DOMAIN nodes
    THEN [ok |-> FALSE, g |-> g, up |-> up]
    ELSE [ok |-> TRUE,
          g |-> [g EXCEPT
                   !.buffer = IF g.current_node # 0
                              THEN UpdateStoryHistory(@, g.current_node)
                              ELSE @,
                   !.departed = IF g.current_node # 0
                                THEN Append(@, g.current_node)
                                ELSE @,
                   !.current_node = nid],
          up |-> [up EXCEPT
                    !.current_node_id = nid,
                    !.last_active = now,
                    !.choice_history = AppendChoice(@, nid),
                    !.encountered = MergeEncountered(@, nodes[nid].enc, nid)]]

\* -------------------------------------------------------------- make_choice
\* (the placeholder names no reward)
PlaceholderMission(sid) ==
    [status |-> "active", progress |-> 0, nupd |-> 0, story_id |-> sid,
     reward |-> 0, credited |-> 0, log |-> <<>>,
     giver_id |-> 0, target_id |-> 0]

ActiveMissions(ms) == {m \in DOMAIN ms : ms[m].status = "active"}

\* A make_choice that counts the choice before it resolves the node: the
\* increment is committed by the time the ValueError is raised (C9 tells it
\* from the code's order).
MakeChoiceNoNodeCounted(e, g1, sid) ==
    /\ eng' = [eng EXCEPT ![e] = [g1 EXCEPT !.node_count = @ + 1]]
    /\ dbUP' = [dbUP EXCEPT !.node_count = g1.node_count + 1]
    /\ out' = [Outcome(e, "make_choice", "no_valid_node") EXCEPT !.story = sid]
    /\ UNCHANGED <<dbMissions, nextMission, pc, loc>>

\* The results with which make_choice fails, and what its caller is given
\* for each: the except clause turns every exception into a RuntimeError.
FailureResults ==
    {"no_valid_node", "generation_failed", "bad_response",
     "failed_after_transition"}
RaisedError(result) ==
    IF result \in FailureResults THEN "RuntimeError" ELSE "none"

\* make_choice when resolve_current_node returned None: the ValueError goes
\* to the handler's except clause, which rolls back.  g1: the GameState as
\* reloaded at the start of the call.
MakeChoiceNoNode(e, g1, sid) ==
    /\ eng' = [eng EXCEPT ![e] = g1]
    /\ out' = [Outcome(e, "make_choice", "no_valid_node") EXCEPT !.story = sid]
    /\ UNCHANGED <<dbMissions, dbUP, nextMission, pc, loc>>

\* A make_choice that takes its increment back when the generation call
\* fails (C4 tells it from the code's except clause).
MakeChoiceGenFailedCompensated(e, res) ==
    /\ out' = [res EXCEPT !.result = "generation_failed"]
    /\ dbUP' = [dbUP EXCEPT !.node_count = Max(0, @ - 1)]
    /\ eng' = [eng EXCEPT ![e] = [@ EXCEPT !.node_count = Max(0, @ - 1)]]
    /\ UNCHANGED <<dbNodes, dbMissions, nextNode, clock>>

\* make_choice up to the resolution of the current node: reload_state, the
\* story checks, resolve_current_node.  storeOk = FALSE: a lookup of
\* resolve_current_node raises.
MakeChoiceBegin(e, storeOk) ==
    /\ pc[e] = "idle"
    /\ LET g1 == ReloadState(eng[e], dbUP)
           sid == dbUP.current_story_id
       IN  IF sid = 0 \/ sid \notin dbStories
           THEN /\ eng' = [eng EXCEPT ![e] = g1]
                /\ out' = Outcome(e, "make_choice", "no_story")
                /\ UNCHANGED <<dbMissions, dbUP, nextMission, pc, loc>>
           ELSE \E r \in ResolveCurrentNode(g1, dbUP, dbNodes, sid, storeOk) :
                  IF r = 0
                  THEN MakeChoiceNoNode(e, g1, sid)
                  ELSE /\ eng' = [eng EXCEPT ![e] = g1]
                       /\ loc' = [loc EXCEPT ![e] =
                                    [story |-> sid, cur |-> r, am |-> 0,
                                     pre_count |-> dbUP.node_count]]
                       /\ pc' = [pc EXCEPT ![e] = "resolved"]
                       /\ out' = [Outcome(e, "make_choice", "resolved")
                                    EXCEPT !.story = sid, !.cur = r]
                       /\ UNCHANGED <<dbMissions, dbUP, nextMission>>
    /\ UNCHANGED <<dbArcs, listeners, dbStories, dbUPOther, dbNodes, nextStory, nextNode, clock>>

\* make_choice from the lookup of the active mission to the commit made by
\* increment_node_count, which also commits a placeholder mission.
MakeChoiceCount(e, b) ==
    /\ pc[e] = "resolved"
    /\ eng[e].node_count + 1 <= b.count
    /\ \E am \in (IF ActiveMissions(dbMissions) # {}
                  THEN ActiveMissions(dbMissions)
                  ELSE {nextMission}) :
         /\ IF am \in MissionIds
            THEN UNCHANGED <<dbMissions, nextMission>>
            ELSE /\ am <= b.missions
                 /\ dbMissions' = dbMissions @@
                        (am :> PlaceholderMission(loc[e].story))
                 /\ nextMission' = am + 1
         /\ loc' = [loc EXCEPT ![e].am = am]
    /\ eng' = [eng EXCEPT ![e] = [@ EXCEPT !.node_count = @ + 1]]
    /\ dbUP' = [dbUP EXCEPT !.node_count = eng[e].node_count + 1]
    /\ pc' = [pc EXCEPT ![e] = "generating"]
    /\ out' = [Outcome(e, "make_choice", "generating")
                 EXCEPT !.story = loc[e].story, !.cur = loc[e].cur]
    /\ UNCHANGED <<dbArcs, listeners, dbStories, dbUPOther, dbNodes, nextStory, nextNode, clock>>

\* make_choice when generate_continuation raises or times out: the except
\* clause rolls back what is pending, which is nothing.
MakeChoiceGenFailed(e, res) ==
    /\ out' = [res EXCEPT !.result = "generation_failed"]
    /\ UNCHANGED <<dbNodes, dbMissions, dbUP, nextNode, clock, eng>>

\* A next node that is given no parent (C24 tells it from the code's
\* parent_node_id = current_node.id).
NextNodeDetached(sid, cur, now, characters, text) ==
    [story_id |-> sid, parent_node_id |-> 0, created_at |-> now,
     protagonist |-> dbNodes[cur].protagonist, enc |-> characters,
     narrative_text |-> text, mission_info |-> TRUE]

\* next_node = StoryNode(...): the node make_choice creates under cur; its
\* branch_metadata holds "mission_info", the root's does not
NextNode(sid, cur, now, characters, text) ==
    [story_id |-> sid, parent_node_id |-> cur, created_at |-> now,
     protagonist |-> dbNodes[cur].protagonist, enc |-> characters,
     narrative_text |-> text, mission_info |-> TRUE]

\* make_choice from the call of generate_continuation to its end.
\* signal: the mission_update status of the generated segment;
\* characters: the characters argument; fail: "none", "gen" (the generation
\* call raises or times out), "bad_response" (the segment lacks
\* narrative_text or choices), "post_transition" (a mission or relationship
\* update raises after transition_to_node).
MakeChoiceFinish(e, signal, characters, fail, b) ==
    /\ pc[e] = "generating"
    /\ pc' = [pc EXCEPT ![e] = "idle"]
    /\ loc' = [loc EXCEPT ![e] = NoLoc]
    /\ \E now \in Now(b), text \in TextLengths(b) :
         LET am == loc[e].am
             cur == loc[e].cur
             sid == loc[e].story
             cp == dbMissions[am].progress
             np == IF signal = "progressed" THEN Min(100, cp + 25)
                   ELSE IF signal = "completed" THEN 100 ELSE cp
             um == IF signal \in {"progressed", "completed", "failed"}
                   THEN UpdateMission(dbMissions, dbUP, am, np)
                   ELSE [ms |-> dbMissions, up |-> dbUP, committed |-> FALSE,
                         cms |-> dbMissions, cup |-> dbUP]
             nid == nextNode
             node == NextNode(sid, cur, now, characters, text)
             nodes1 == dbNodes @@ (nid :> node)
             tr == TransitionToNode(eng[e], um.up, nodes1, nid, now)
             ms2 == FlatIncrement(um.ms, tr.g.active_missions)
             \* update_mission ends with state_manager.update_state
             n1 == IF signal \in {"progressed", "completed", "failed"}
                   THEN NotifyListeners(listeners, "update_mission")
                   ELSE <<>>
             res == [Outcome(e, "make_choice", "ok") EXCEPT
                       !.story = sid, !.cur = cur, !.mission = am,
                       !.signal = signal, !.notes = n1]
         IN  CASE fail = "gen" ->
                    MakeChoiceGenFailed(e, [res EXCEPT !.notes = <<>>])
               [] fail = "bad_response" ->
                    /\ dbMissions' = um.cms
                    /\ dbUP' = um.cup
                    /\ out' = [res EXCEPT !.result = "bad_response"]
                    /\ UNCHANGED <<dbNodes, nextNode, clock, eng>>
               [] fail = "post_transition" ->
                    /\ nid <= b.nodes
                    /\ dbMissions' = um.cms
                    /\ dbUP' = um.cup
                    /\ eng' = [eng EXCEPT ![e] = tr.g]
                    /\ nextNode' = nid + 1
                    /\ clock' = now
                    /\ out' = [res EXCEPT !.result = "failed_after_transition",
                                          !.node = nid]
                    /\ UNCHANGED dbNodes
               [] OTHER ->
                    /\ nid <= b.nodes
                    /\ dbNodes' = nodes1
                    /\ dbMissions' = ms2
                    /\ dbUP' = tr.up
                    /\ eng' = [eng EXCEPT ![e] = tr.g]
                    /\ nextNode' = nid + 1
                    /\ clock' = now
                    /\ out' = [res EXCEPT
                                 !.node = nid,
                                 !.notes = n1 \o NotifyListeners(
                                               listeners, "make_choice")]
    /\ UNCHANGED <<dbArcs, listeners, dbStories, dbUPOther, nextStory, nextMission>>

\* ------------------------------------------------- GameState's public methods
\* increment_node_count() called on its own
IncrementNodeCount(e, b) ==
    /\ pc[e] = "idle"
    /\ eng[e].node_count + 1 <= b.count
    /\ eng' = [eng EXCEPT ![e] = [@ EXCEPT !.node_count = @ + 1]]
    /\ dbUP' = [dbUP EXCEPT !.node_count = eng[e].node_count + 1]
    /\ out' = Outcome(e, "increment_node_count", "ok")
    /\ UNCHANGED <<dbArcs, listeners, dbStories, dbUPOther, dbNodes, dbMissions, nextStory, nextNode,
                   nextMission, clock, pc, loc>>

\* reload_state() called on its own
ReloadStateOp(e) ==
    /\ pc[e] = "idle"
    /\ eng' = [eng EXCEPT ![e] = ReloadState(@, dbUP)]
    /\ out' = Outcome(e, "reload_state", "ok")
    /\ UNCHANGED <<dbArcs, listeners, dbStories, dbUPOther, dbNodes, dbMissions, dbUP, nextStory, nextNode,
                   nextMission, clock, pc, loc>>

\* transition_to_node(node_id, update_progress) called on its own, followed
\* by its caller's commit.  upd = FALSE: only the GameState's fields change.
TransitionOp(e, nid, upd, b) ==
    /\ pc[e] = "idle"
    /\ Len(eng[e].departed) < b.departs
    /\ \E now \in Now(b) :
         LET tr == TransitionToNode(eng[e], dbUP, dbNodes, nid, now)
         IN  /\ eng' = [eng EXCEPT ![e] = tr.g]
             /\ IF tr.ok /\ upd
                THEN dbUP' = tr.up /\ clock' = now
                ELSE UNCHANGED <<dbUP, clock>>
             /\ out' = [Outcome(e, "transition_to_node",
                                IF ~tr.ok THEN "invalid_node"
                                ELSE IF upd THEN "ok" ELSE "ok_in_memory")
                          EXCEPT !.cur = eng[e].current_node, !.node = nid]
    /\ UNCHANGED <<dbArcs, listeners, dbStories, dbUPOther, dbNodes, dbMissions, nextStory, nextNode,
                   nextMission, pc, loc>>

\* resolve_current_node(story_id) called on its own
ResolveNode(e, story_id, storeOk) ==
    /\ pc[e] = "idle"
    /\ \E r \in ResolveCurrentNode(eng[e], dbUP, dbNodes, story_id, storeOk) :
         out' = [Outcome(e, "resolve_current_node",
                         IF ~storeOk THEN "lookup_failed"
                         ELSE IF r = 0 THEN "none" ELSE "resolved")
                   EXCEPT !.story = IF story_id # 0 THEN story_id
                                    ELSE eng[e].current_story,
                          !.node = r]
    /\ UNCHANGED <<dbArcs, listeners, dbStories, dbUPOther, dbNodes, dbMissions, dbUP, nextStory, nextNode,
                   nextMission, clock, eng, pc, loc>>

\* ------------------------------------------------------ get_enhanced_context
MaxAncestors == 5

\* The while loop of get_enhanced_context: the parents of node nid, nearest
\* first, until a null parent, a missing parent or MaxAncestors of them
RECURSIVE Ancestors(_, _, _)
Ancestors(nodes, parent_id, count) ==
    IF parent_id = 0 \/ count >= MaxAncestors \/ parent_id \notin DOMAIN nodes
    THEN <<>>
    ELSE <<parent_id>> \o Ancestors(nodes, nodes[parent_id].parent_node_id,
                                     count + 1)

\* An ancestor list left in the order the walk found it, nearest first (C36
\* tells it from the code's reverse()).
KeepOrder(s) == s

Reverse(s) == [i \in 1..Len(s) |-> s[Len(s) + 1 - i]]

SceneChars == 200
MomentChars == 300

\* A truncation that takes the whole text (C39 tells it from the slice).
TruncateNothing(text, limit) == [chars |-> text, dots |-> FALSE]

\* truncated_text = text[:limit], then "..." if len(text) > limit.  chars:
\* how many characters of the text are carried; dots: "..." follows them
Truncate(text, limit) == [chars |-> Min(text, limit), dots |-> text > limit]

\* One element of context_parts.  kind: the section header, "MOMENT", "SCENE",
\* one of the four mission fields, or "" for the empty separator line
Line(kind, i, node, t) ==
    [kind |-> kind, i |-> i, node |-> node, chars |-> t.chars, dots |-> t.dots]

NoText == [chars |-> 0, dots |-> FALSE]
Plain(kind) == Line(kind, 0, 0, NoText)

\* The key node ids of every plot arc, whatever its status (C38 tells it from
\* the filter on status == 'active').
KeyNodeIdsAnyStatus(arcs, sid) ==
    UNION {a.key_nodes : a \in {x \in arcs : x.story_id = sid}}

\* key_node_ids: the key_nodes of the active plot arcs of story sid
KeyNodeIds(arcs, sid) ==
    UNION {a.key_nodes : a \in {x \in arcs : /\ x.story_id = sid
                                             /\ x.status = "active"}}

\* StoryNode.query.filter(StoryNode.id.in_(key_node_ids)).all(): the rows
\* that exist; the query names no order
KeyNodes(nodes, arcs, sid) == KeyNodeIds(arcs, sid) \cap DOMAIN nodes

Orderings(S) ==
    {s \in [1..Cardinality(S) -> S] :
        \A i, j \in 1..Cardinality(S) : s[i] = s[j] => i = j}

\* keys: the rows of the key nodes, in the order the store returned them
KeySection(nodes, keys) ==
    IF keys = <<>> THEN <<>>
    ELSE <<Plain("KEY PLOT POINTS:")>>
         \o [i \in 1..Len(keys) |->
               Line("MOMENT", i, keys[i],
                    Truncate(nodes[keys[i]].narrative_text, MomentChars))]
         \o <<Plain("")>>

HistorySection(nodes, scenes) ==
    IF scenes = <<>> THEN <<>>
    ELSE <<Plain("RECENT STORY HISTORY:")>>
         \o [i \in 1..Len(scenes) |->
               Line("SCENE", i, scenes[i],
                    Truncate(nodes[scenes[i]].narrative_text, SceneChars))]
         \o <<Plain("")>>

\* A mission section that is written for every node (C37 tells it from the
\* test on "mission_info").
MissionSectionAlways(node) ==
    <<Plain("CURRENT MISSION:"), Plain("Title:"), Plain("Objective:"),
      Plain("Status:"), Plain("Progress:"), Plain("")>>

MissionSection(node) ==
    IF node.mission_info
    THEN <<Plain("CURRENT MISSION:"), Plain("Title:"), Plain("Objective:"),
           Plain("Status:"), Plain("Progress:"), Plain("")>>
    ELSE <<>>

NoContext == [result |-> "empty", text |-> <<>>, parts |-> <<>>]

\* A get_enhanced_context without its try / except: a failing lookup
\* reaches the caller (C23 tells it from the code's handler).
GetEnhancedContextUnguarded(nodes, nid, storeOk, keys) ==
    IF ~storeOk THEN [NoContext EXCEPT !.result = "raised"]
    ELSE IF nid \notin DOMAIN nodes THEN NoContext
    ELSE LET scenes == Reverse(Ancestors(nodes, nodes[nid].parent_node_id, 0))
             parts == KeySection(nodes, keys) \o HistorySection(nodes, scenes)
                         \o MissionSection(nodes[nid])
         IN  [result |-> IF parts = <<>> THEN "empty" ELSE "text",
              text |-> scenes, parts |-> parts]

\* get_enhanced_context(node_id); storeOk = FALSE: a lookup raises.  parts:
\* context_parts, which "\n".join turns into the text returned (the empty
\* text for no part); text: the nodes of its scenes, oldest first
GetEnhancedContext(nodes, nid, storeOk, keys) ==
    IF ~storeOk \/ nid \notin DOMAIN nodes
    THEN NoContext
    ELSE LET scenes == Reverse(Ancestors(nodes, nodes[nid].parent_node_id, 0))
             parts == KeySection(nodes, keys) \o HistorySection(nodes, scenes)
                         \o MissionSection(nodes[nid])
         IN  [result |-> IF parts = <<>> THEN "empty" ELSE "text",
              text |-> scenes, parts |-> parts]

GetEnhancedContextOp(e, nid, storeOk) ==
    /\ pc[e] = "idle"
    /\ \E keys \in Orderings(IF nid \in NodeIds
                              THEN KeyNodes(dbNodes, dbArcs,
                                            dbNodes[nid].story_id)
                              ELSE {}) :
         LET c == GetEnhancedContext(dbNodes, nid, storeOk, keys)
         IN  out' = [Outcome(e, "get_enhanced_context", c.result)
                       EXCEPT !.node = nid, !.text = c.text,
                              !.parts = c.parts]
    /\ UNCHANGED <<dbArcs, listeners, dbStories, dbUPOther, dbNodes, dbMissions,
                   dbUP, nextStory, nextNode, nextMission, clock, eng, pc, loc>>

\* A PlotArc row is stored for story sid (the arcs are curated outside these
\* modules; get_enhanced_context only reads them)
StorePlotArc(sid, status, key_nodes, b) ==
    /\ Cardinality(dbArcs) < b.arcs
    /\ [story_id |-> sid, status |-> status, key_nodes |-> key_nodes]
          \notin dbArcs
    /\ dbArcs' = dbArcs \cup {[story_id |-> sid, status |-> status,
                                key_nodes |-> key_nodes]}
    /\ out' = [Outcome(0, "store_plot_arc", "ok") EXCEPT !.story = sid]
    /\ UNCHANGED <<listeners, dbStories, dbUPOther, dbNodes, dbMissions, dbUP,
                   nextStory, nextNode, nextMission, clock, eng, pc, loc>>

\* ------------------------------------------------------- GameStateManager
\* add_listener(listener): appended unless it is in the registry already
AddListener(l) ==
    /\ listeners' = IF InSeq(l, listeners) THEN listeners
                    ELSE Append(listeners, l)
    /\ out' = [Outcome(0, "add_listener", "ok") EXCEPT !.listener = l]
    /\ UNCHANGED <<dbArcs, dbStories, dbUPOther, dbNodes, dbMissions, dbUP,
                   nextStory, nextNode, nextMission, clock, eng, pc, loc>>

\* remove_listener(listener): list.remove takes its first occurrence out
RemoveListener(l) ==
    /\ listeners' = IF InSeq(l, listeners) THEN RemoveFirst(listeners, l)
                    ELSE listeners
    /\ out' = [Outcome(0, "remove_listener", "ok") EXCEPT !.listener = l]
    /\ UNCHANGED <<dbArcs, dbStories, dbUPOther, dbNodes, dbMissions, dbUP,
                   nextStory, nextNode, nextMission, clock, eng, pc, loc>>

\* update_state(state_update) called on the manager itself
UpdateStateOp ==
    /\ out' = [Outcome(0, "update_state", "ok")
                 EXCEPT !.notes = NotifyListeners(listeners, "update_state")]
    /\ UNCHANGED <<dbArcs, listeners, dbStories, dbUPOther, dbNodes, dbMissions, dbUP,
                   nextStory, nextNode, nextMission, clock, eng, pc, loc>>

\* load_state(state_json).  valid = FALSE: json.loads raises, nobody is
\* notified
LoadStateOp(valid) ==
    /\ out' = IF valid
              THEN [Outcome(0, "load_state", "ok")
                      EXCEPT !.notes = NotifyListeners(listeners, "load_state")]
              ELSE Outcome(0, "load_state", "JSONDecodeError")
    /\ UNCHANGED <<dbArcs, listeners, dbStories, dbUPOther, dbNodes, dbMissions, dbUP,
                   nextStory, nextNode, nextMission, clock, eng, pc, loc>>

\* -------------------------------------------------- the mission functions
\* create_mission_from_story(user_id, story_text, story_id): the mission is
\* committed, then its id is added to the player's active list and committed.
\* giver, target: the characters the mission details name (0: none)
CreateMissionOp(b, giver, target) ==
    /\ nextMission <= b.missions
    /\ dbMissions' = dbMissions @@
           (nextMission :> [InitialMission(dbUP.current_story_id)
                              EXCEPT !.giver_id = giver, !.target_id = target])
    /\ dbUP' = [dbUP EXCEPT !.active_missions =
                   IF InSeq(nextMission, @) THEN @ ELSE Append(@, nextMission)]
    /\ nextMission' = nextMission + 1
    /\ out' = [Outcome(0, "create_mission", "ok") EXCEPT !.mission = nextMission]
    /\ UNCHANGED <<dbArcs, listeners, dbStories, dbUPOther, dbNodes, nextStory, nextNode, clock, eng, pc, loc>>

\* complete_mission(mission_id, user_id) called on its own
CompleteMissionOp(mid) ==
    LET c == CompleteMission(dbMissions, dbUP, mid)
    IN  /\ dbMissions' = c.ms
        /\ dbUP' = c.up
        /\ out' = [Outcome(0, "complete_mission",
                           IF c.ok THEN "true" ELSE "false")
                     EXCEPT !.mission = mid]
        /\ UNCHANGED <<dbArcs, listeners, dbStories, dbUPOther, dbNodes, nextStory, nextNode, nextMission,
                       clock, eng, pc, loc>>

\* fail_mission(mission_id, user_id) called on its own
FailMissionOp(mid) ==
    LET c == FailMission(dbMissions, dbUP, mid)
    IN  /\ dbMissions' = c.ms
        /\ dbUP' = c.up
        /\ out' = [Outcome(0, "fail_mission",
                           IF c.ok THEN "true" ELSE "false")
                     EXCEPT !.mission = mid]
        /\ UNCHANGED <<dbArcs, listeners, dbStories, dbUPOther, dbNodes, nextStory, nextNode, nextMission,
                       clock, eng, pc, loc>>

\* GameEngine.update_mission(mission_id, np / 100.0) called on its own.  The
\* method commits only through complete_mission; kept tells whether its
\* caller commits what is pending at its end (TRUE) or drops it.
UpdateMissionOp(e, mid, np, kept, b) ==
    /\ pc[e] = "idle"
    /\ mid \in MissionIds => dbMissions[mid].nupd < b.updates
    /\ LET um == UpdateMission(dbMissions, dbUP, mid, np)
       IN  /\ dbMissions' = IF kept THEN um.ms ELSE um.cms
           /\ dbUP' = IF kept THEN um.up ELSE um.cup
           /\ out' = [Outcome(e, "update_mission",
                              IF mid \notin MissionIds THEN "none"
                              ELSE IF um.committed THEN "completed"
                              ELSE "updated")
                        EXCEPT !.mission = mid, !.value = np,
                               !.notes = IF mid \in MissionIds
                                         THEN NotifyListeners(
                                                  listeners, "update_mission")
                                         ELSE <<>>]
    /\ UNCHANGED <<dbArcs, listeners, dbStories, dbUPOther, dbNodes, nextStory, nextNode, nextMission, clock,
                   eng, pc, loc>>

\* complete_mission(mission_id, user_id) called with the id of another user
\* on a mission of the player: the mission is looked up by its id alone
CompleteMissionOtherOp(mid) ==
    LET c == CompleteMission(dbMissions, dbUPOther, mid)
    IN  /\ dbMissions' = c.ms
        /\ dbUPOther' = c.up
        /\ out' = [Outcome(0, "complete_mission_other",
                           IF c.ok THEN "true" ELSE "false")
                     EXCEPT !.mission = mid]
        /\ UNCHANGED <<dbArcs, listeners, dbStories, dbNodes, dbUP, nextStory, nextNode,
                       nextMission, clock, eng, pc, loc>>

\* fail_mission(mission_id, user_id) called with the id of another user on
\* a mission of the player
FailMissionOtherOp(mid) ==
    LET c == FailMission(dbMissions, dbUPOther, mid)
    IN  /\ dbMissions' = c.ms
        /\ dbUPOther' = c.up
        /\ out' = [Outcome(0, "fail_mission_other",
                           IF c.ok THEN "true" ELSE "false")
                     EXCEPT !.mission = mid]
        /\ UNCHANGED <<dbArcs, listeners, dbStories, dbNodes, dbUP, nextStory, nextNode,
                       nextMission, clock, eng, pc, loc>>

\* update_mission(mission_id, progress) of another user's GameEngine on a
\* mission of the player: mission.user_id != self.user_id, None is returned
UpdateMissionOtherOp(mid) ==
    /\ out' = [Outcome(0, "update_mission_other", "none") EXCEPT !.mission = mid]
    /\ UNCHANGED <<dbArcs, listeners, dbStories, dbNodes, dbMissions, dbUP,
                   dbUPOther, nextStory, nextNode, nextMission, clock, eng,
                   pc, loc>>

\* StoryContinuationHandler._process_mission_update(mission_update, mission)
\* on a Mission object, as a result of which the row of m is:
ProcessMissionUpdate(m, signal) ==
    LET change == IF signal = "progressed" THEN 25
                  ELSE IF signal = "completed" THEN 100 - m.progress
                  ELSE IF signal = "failed" THEN -50
                  ELSE 0
        m1 == UpdateProgress(m, Max(0, Min(100, m.progress + change)))
    IN  IF change = 0 THEN m
        ELSE IF signal \in {"completed", "failed"}
             THEN [m1 EXCEPT !.status = signal]
             ELSE m1

\* validate_response's mission update on the Mission mid, followed by its
\* caller's commit
ProcessMissionUpdateOp(mid, signal, b) ==
    /\ mid \in MissionIds
    /\ dbMissions[mid].nupd < b.updates
    /\ dbMissions' = [dbMissions EXCEPT ![mid] = ProcessMissionUpdate(@, signal)]
    /\ out' = [Outcome(0, "process_mission_update", signal)
                 EXCEPT !.mission = mid]
    /\ UNCHANGED <<dbArcs, listeners, dbStories, dbUPOther, dbNodes, dbUP, nextStory, nextNode, nextMission,
                   clock, eng, pc, loc>>

\* ------------------------------------------------------------ specifications
\* The inputs of make_choice's second half: a failing call has one
\* representative, since its signal and characters are never looked at.
FinishInputs(signals, charsets, fails) ==
    {<<sg, cs, "none">> : sg \in signals, cs \in charsets}
      \cup {<<sg, {}, f>> : sg \in signals,
                             f \in fails \cap {"bad_response", "post_transition"}}
      \cup {<<"unchanged", {}, f>> : f \in fails \cap {"gen"}}

\* Spec: one GameEngine object at a time serves the player; every handler;
\* a generation call that fails and a failure after the transition; the
\* mission signals that leave the mission alone or complete it.
MaxStories == 2            \* stories the store hands ids to
MaxNodes == 2              \* story nodes the store hands ids to
MaxMissions == 2           \* missions the store hands ids to
MaxCount == 2              \* cap on node_count
Caps == [stories |-> MaxStories, nodes |-> MaxNodes, missions |-> MaxMissions,
         count |-> MaxCount, clock |-> MaxNodes - 1]

Next ==
    \/ NewEngine(1)
    \/ \E name \in Names, fail \in {"none", "gen"} :
          StartNewStory(1, name, fail, Caps)
    \/ \E storeOk \in BOOLEAN : MakeChoiceBegin(1, storeOk)
    \/ MakeChoiceCount(1, Caps)
    \/ \E in \in FinishInputs({"unchanged", "completed"}, {{}, {1}},
                               {"gen", "post_transition"}) :
          MakeChoiceFinish(1, in[1], in[2], in[3], Caps)
    \/ \E story_id \in 0..MaxStories : ResolveNode(1, story_id, TRUE)
    \/ ResolveNode(1, 0, FALSE)

Spec == Init /\ [][Next]_vars

\* SpecConc: two GameEngine objects serve the player in overlapping requests
\* of one story; GameState's public methods are called on their own too.
ConcNodes == 3             \* story nodes the store hands ids to
ConcCount == 2             \* cap on node_count
ConcCaps == [stories |-> 1, nodes |-> ConcNodes, missions |-> 1,
             count |-> ConcCount, clock |-> 1]

NextConc ==
    \/ \E e \in Engines, name \in Names, fail \in {"none", "gen"} :
          StartNewStory(e, name, fail, ConcCaps)
    \/ \E e \in Engines : MakeChoiceBegin(e, TRUE)
    \/ \E e \in Engines : MakeChoiceCount(e, ConcCaps)
    \/ \E e \in Engines, in \in FinishInputs({"unchanged"}, {{}}, {"gen"}) :
          MakeChoiceFinish(e, in[1], in[2], in[3], ConcCaps)
    \/ \E e \in Engines : IncrementNodeCount(e, ConcCaps)
    \/ \E e \in Engines : ReloadStateOp(e)

SpecConc == Init /\ [][NextConc]_vars

\* SpecHist: one GameEngine object follows one story over many choices,
\* some of which fail on a malformed segment or after the transition.
HistNodes == 5             \* story nodes the store hands ids to
HistCaps == [stories |-> 1, nodes |-> HistNodes, missions |-> 1,
             count |-> HistNodes, clock |-> 1]

NextHist ==
    \/ NewEngine(1)
    \/ StartNewStory(1, "ada", "none", HistCaps)
    \/ MakeChoiceBegin(1, TRUE)
    \/ MakeChoiceCount(1, HistCaps)
    \/ \E in \in FinishInputs({"unchanged"}, {{}},
                               {"bad_response", "post_transition"}) :
          MakeChoiceFinish(1, in[1], in[2], in[3], HistCaps)

SpecHist == Init /\ [][NextHist]_vars

\* SpecStart: one GameEngine object serves a player who starts stories and
\* makes choices that all succeed.
StartStories == 2          \* stories the store hands ids to
StartNodes == 4            \* story nodes the store hands ids to
StartCaps == [stories |-> StartStories, nodes |-> StartNodes,
              missions |-> StartStories, count |-> StartNodes, clock |-> 1]

NextStart ==
    \/ NewEngine(1)
    \/ \E name \in Names : StartNewStory(1, name, "none", StartCaps)
    \/ MakeChoiceBegin(1, TRUE)
    \/ MakeChoiceCount(1, StartCaps)
    \/ \E in \in FinishInputs({"unchanged"}, {{}, {1}}, {}) :
          MakeChoiceFinish(1, in[1], in[2], in[3], StartCaps)

SpecStart == Init /\ [][NextStart]_vars

\* SpecTrans: one GameEngine object follows one story; transition_to_node
\* is also called on its own, with ids of nodes and with ids of no node.
TransNodes == 3            \* story nodes the store hands ids to
TransDeparts == 3          \* departures after which no transition is called
TransCaps == [stories |-> 1, nodes |-> TransNodes, missions |-> 1,
              count |-> TransNodes, clock |-> 1, departs |-> TransDeparts]

NextTrans ==
    \/ StartNewStory(1, "ada", "none", TransCaps)
    \/ MakeChoiceBegin(1, TRUE)
    \/ MakeChoiceCount(1, TransCaps)
    \/ \E in \in FinishInputs({"unchanged"}, SUBSET Chars, {}) :
          MakeChoiceFinish(1, in[1], in[2], in[3], TransCaps)
    \/ \E nid \in 1..(TransNodes + 1), upd \in BOOLEAN :
          TransitionOp(1, nid, upd, TransCaps)

SpecTrans == Init /\ [][NextTrans]_vars

\* SpecSignal: one GameEngine object follows one story; every choice
\* succeeds and its segment carries any of the four mission signals.
SignalNodes == 5           \* story nodes the store hands ids to
SignalCaps == [stories |-> 1, nodes |-> SignalNodes, missions |-> 2,
               count |-> SignalNodes, clock |-> 0]

NextSignal ==
    \/ StartNewStory(1, "ada", "none", SignalCaps)
    \/ MakeChoiceBegin(1, TRUE)
    \/ MakeChoiceCount(1, SignalCaps)
    \/ \E in \in FinishInputs(Signals, {{}}, {}) :
          MakeChoiceFinish(1, in[1], in[2], in[3], SignalCaps)

SpecSignal == Init /\ [][NextSignal]_vars

\* SpecContext: one GameEngine object follows up to two stories over
\* successful choices, and the context of any node id is asked for in between.
ContextNodes == 7          \* story nodes the store hands ids to
ContextCaps == [stories |-> 2, nodes |-> ContextNodes, missions |-> 2,
                count |-> ContextNodes, clock |-> 0]

NextContext ==
    \/ StartNewStory(1, "ada", "none", ContextCaps)
    \/ MakeChoiceBegin(1, TRUE)
    \/ MakeChoiceCount(1, ContextCaps)
    \/ MakeChoiceFinish(1, "unchanged", {}, "none", ContextCaps)
    \/ \E nid \in 0..(ContextNodes + 1), storeOk \in BOOLEAN :
          GetEnhancedContextOp(1, nid, storeOk)

SpecContext == Init /\ [][NextContext]_vars

\* SpecMission: the missions of one player; the mission functions are called
\* on their own, on the missions create_mission_from_story stored.
MissionMissions == 2       \* missions the store hands ids to
MissionUpdates == 2        \* audit entries after which no update is called
MissionCaps == [stories |-> 1, nodes |-> 1, missions |-> MissionMissions,
                count |-> 1, clock |-> 0, updates |-> MissionUpdates]

NextMissionStep ==
    \/ CreateMissionOp(MissionCaps, 0, 0)
    \/ \E mid \in 1..(MissionMissions + 1) : CompleteMissionOp(mid)
    \/ \E mid \in 1..(MissionMissions + 1) : FailMissionOp(mid)
    \/ \E mid \in 1..(MissionMissions + 1), np \in {50, 100}, kept \in BOOLEAN :
          UpdateMissionOp(1, mid, np, kept, MissionCaps)

SpecMission == Init /\ [][NextMissionStep]_vars

\* SpecUsers: the mission functions are called for the player's missions
\* by the player and with the id of another user.
UsersMissions == 2         \* missions the store hands ids to
UsersCaps == [stories |-> 1, nodes |-> 1, missions |-> UsersMissions,
              count |-> 1, clock |-> 0, updates |-> 1]

NextUsers ==
    \/ CreateMissionOp(UsersCaps, 0, 0)
    \/ \E mid \in 1..UsersMissions : CompleteMissionOp(mid)
    \/ \E mid \in 1..UsersMissions : FailMissionOp(mid)
    \/ \E mid \in 1..UsersMissions : CompleteMissionOtherOp(mid)
    \/ \E mid \in 1..UsersMissions : FailMissionOtherOp(mid)
    \/ \E mid \in 1..UsersMissions : UpdateMissionOtherOp(mid)

SpecUsers == Init /\ [][NextUsers]_vars

\* SpecProgress: one GameEngine object follows one story; the choices carry
\* any mission signal, and in between update_mission is called with values
\* outside 0..100 and the continuation handler processes mission updates.
ProgressNodes == 3         \* story nodes the store hands ids to
ProgressUpdates == 3       \* audit entries after which no update is called
ProgressCaps == [stories |-> 1, nodes |-> ProgressNodes, missions |-> 2,
                 count |-> ProgressNodes, clock |-> 0,
                 updates |-> ProgressUpdates]

NextProgress ==
    \/ StartNewStory(1, "ada", "none", ProgressCaps)
    \/ MakeChoiceBegin(1, TRUE)
    \/ MakeChoiceCount(1, ProgressCaps)
    \/ \E in \in FinishInputs(Signals, {{}}, {}) :
          MakeChoiceFinish(1, in[1], in[2], in[3], ProgressCaps)
    \/ \E mid \in 1..2, np \in {-10, 150} :
          UpdateMissionOp(1, mid, np, TRUE, ProgressCaps)
    \/ \E mid \in 1..2, signal \in Signals :
          ProcessMissionUpdateOp(mid, signal, ProgressCaps)

SpecProgress == Init /\ [][NextProgress]_vars

\* SpecRelations: missions that name a giver and a target are created and
\* then completed or failed, by the mission functions or by update_mission.
RelationMissions == 2      \* missions the store hands ids to
RelationUpdates == 2       \* audit entries after which no update is called
RelationCaps == [stories |-> 1, nodes |-> 1, missions |-> RelationMissions,
                 count |-> 1, clock |-> 0, updates |-> RelationUpdates]

\* <<giver, target>> of the missions created: none, a giver only, a giver
\* and a target, and one character as both
GiverTargets == {<<0, 0>>, <<1, 0>>, <<2, 1>>, <<1, 1>>}

NextRelations ==
    \/ \E gt \in GiverTargets : CreateMissionOp(RelationCaps, gt[1], gt[2])
    \/ \E mid \in 1..(RelationMissions + 1) : CompleteMissionOp(mid)
    \/ \E mid \in 1..(RelationMissions + 1) : FailMissionOp(mid)
    \/ \E mid \in 1..(RelationMissions + 1) :
          UpdateMissionOp(1, mid, 100, TRUE, RelationCaps)

SpecRelations == Init /\ [][NextRelations]_vars

\* SpecListeners: listeners are registered and removed, in any order and any
\* number of times, and the manager's state is updated or loaded in between.
NextListeners ==
    \/ \E l \in Listeners : AddListener(l)
    \/ \E l \in Listeners : RemoveListener(l)
    \/ UpdateStateOp
    \/ \E valid \in BOOLEAN : LoadStateOp(valid)

SpecListeners == Init /\ [][NextListeners]_vars

\* SpecAssembly: one GameEngine object follows up to two stories whose texts
\* are at, just over and well over the truncation limits; plot arcs are stored
\* for either story, and the context of any node is asked for in between.
AssemblyNodes == 3         \* story nodes the store hands ids to
AssemblyArcs == 1          \* PlotArc rows stored
AssemblyCaps == [stories |-> 2, nodes |-> AssemblyNodes, missions |-> 2,
                 count |-> AssemblyNodes, clock |-> 0,
                 texts |-> {SceneChars, SceneChars + 1, MomentChars + 1},
                 arcs |-> AssemblyArcs]

NextAssembly ==
    \/ StartNewStory(1, "ada", "none", AssemblyCaps)
    \/ MakeChoiceBegin(1, TRUE)
    \/ MakeChoiceCount(1, AssemblyCaps)
    \/ MakeChoiceFinish(1, "unchanged", {}, "none", AssemblyCaps)
    \/ \E sid \in 1..2, status \in {"active", "resolved"},
          key_nodes \in {{1}, {2, AssemblyNodes + 1}} :
          StorePlotArc(sid, status, key_nodes, AssemblyCaps)
    \/ \E nid \in 1..AssemblyNodes : GetEnhancedContextOp(1, nid, TRUE)

SpecAssembly == Init /\ [][NextAssembly]_vars

\* SpecHandler: the mission functions together with the continuation
\* handler's processing of a segment's mission update.
HandlerMissions == 1       \* missions the store hands ids to
HandlerUpdates == 4        \* audit entries after which no update is called
HandlerCaps == [stories |-> 1, nodes |-> 1, missions |-> HandlerMissions,
                count |-> 1, clock |-> 0, updates |-> HandlerUpdates]

NextHandler ==
    \/ CreateMissionOp(HandlerCaps, 0, 0)
    \/ \E mid \in 1..HandlerMissions : CompleteMissionOp(mid)
    \/ \E mid \in 1..HandlerMissions : FailMissionOp(mid)
    \/ \E mid \in 1..HandlerMissions, np \in {50, 100} :
          UpdateMissionOp(1, mid, np, TRUE, HandlerCaps)
    \/ \E mid \in 1..HandlerMissions, signal \in Signals :
          ProcessMissionUpdateOp(mid, signal, HandlerCaps)

SpecHandler == Init /\ [][NextHandler]_vars

\* ------------------------------------------------------------------ claims
\* the nodes committed as children of node p
ChildrenOf(p) == {n \in NodeIds : dbNodes[n].parent_node_id = p}

\* the nodes created by choices (every node but the roots)
ChoiceNodes == {n \in NodeIds : dbNodes[n].parent_node_id # 0}

\* C1: of the overlapping make_choice calls that resolved the same current
\* node only one succeeds: a make_choice that succeeded has committed the
\* only child of the node it resolved, and the pointer names that child.
C1_OneWinnerPerNode ==
    (out.op = "make_choice" /\ out.result = "ok")
        => /\ ChildrenOf(out.cur) = {out.node}
           /\ dbUP.current_node_id = out.node

\* C2: a make_choice that fails after transition_to_node has run leaves no
\* effect of the transition: the persisted pointer, the in-memory current
\* node, the choice history, the encountered characters, last_active and
\* the history buffer are what they were before the step.
C2_TransitionAllOrNothing ==
    [][(out'.op = "make_choice" /\ out'.result = "failed_after_transition"
           /\ pc[out'.e] = "generating")
        => /\ dbUP'.current_node_id = dbUP.current_node_id
           /\ dbUP'.choice_history = dbUP.choice_history
           /\ dbUP'.encountered = dbUP.encountered
           /\ dbUP'.last_active = dbUP.last_active
           /\ eng'[out'.e].current_node = eng[out'.e].current_node
           /\ eng'[out'.e].buffer = eng[out'.e].buffer]_vars

\* C3: when the generation call of make_choice raises or times out, the
\* persisted node_count after the call is the one from before the call.
C3_FailedGenerationKeepsCount ==
    [][(out'.op = "make_choice" /\ out'.result = "generation_failed"
           /\ pc[out'.e] = "generating")
        => dbUP'.node_count = loc[out'.e].pre_count]_vars

C5_CountAtMostOneAhead ==
    dbUP.node_count <= Cardinality(ChoiceNodes) + 1

\* the stored pointer names an existing node of story sid
PointerIn(sid) ==
    /\ dbUP.current_node_id \in NodeIds
    /\ dbNodes[dbUP.current_node_id].story_id = sid

\* the nodes of story sid that no node of the story is younger than
MostRecent(sid) ==
    {n \in NodeIds :
        /\ dbNodes[n].story_id = sid
        /\ \A m \in NodeIds :
              dbNodes[m].story_id = sid
                  => dbNodes[m].created_at <= dbNodes[n].created_at}

\* a resolve_current_node call whose lookups all answered
Resolved == out.op = "resolve_current_node" /\ out.result \in {"resolved", "none"}

C7_ResultIsOfRequestedStory ==
    /\ (out.op = "resolve_current_node" /\ out.node # 0)
          => (out.node \in NodeIds /\ dbNodes[out.node].story_id = out.story)
    /\ (out.op = "make_choice" /\ out.result = "resolved")
          => (out.cur \in NodeIds /\ dbNodes[out.cur].story_id = out.story)
    /\ (Resolved /\ dbUP.current_node_id \in NodeIds /\ ~PointerIn(out.story)
            /\ MostRecent(out.story) # {})
          => out.node \in MostRecent(out.story)

\* C7's case: the pointer names a node of another story and a node of the
\* requested story was returned.
C7_Witness ==
    /\ Resolved /\ out.node # 0
    /\ dbUP.current_node_id \in NodeIds /\ ~PointerIn(out.story)

\* C8 as stated: with the pointer unset, the result is the node with the
\* latest creation timestamp and, among those, the highest id; the root is
\* returned only when the story has no other node.
C8_LatestThenHighestId ==
    (Resolved /\ dbUP.current_node_id = 0 /\ MostRecent(out.story) # {})
        => /\ out.node \in MostRecent(out.story)
           /\ \A m \in MostRecent(out.story) : m <= out.node
           /\ dbNodes[out.node].parent_node_id = 0
                 => \A m \in NodeIds : dbNodes[m].story_id = out.story
                                           => dbNodes[m].parent_node_id = 0

\* C8 amended: with the pointer unset, the result is a node of the story
\* with the latest creation timestamp; which of the nodes tied on it is
\* returned is not determined (the root, if it is one of them).
C8_LatestByTimestamp ==
    (Resolved /\ dbUP.current_node_id = 0 /\ MostRecent(out.story) # {})
        => out.node \in MostRecent(out.story)

\* C8's case: the pointer is unset and the returned node is younger than
\* another node of the story.
C8_Witness ==
    /\ Resolved /\ dbUP.current_node_id = 0 /\ out.node \in NodeIds
    /\ \E m \in NodeIds :
          /\ dbNodes[m].story_id = out.story
          /\ dbNodes[m].created_at < dbNodes[out.node].created_at

\* C9: a make_choice whose resolution yields no node fails and changes
\* nothing: the player's row (node_count, current_node_id), the nodes, the
\* missions, the stories and the history buffer are as before the call.
C9_NoValidNodeChangesNothing ==
    [][(out'.op = "make_choice" /\ out'.result = "no_valid_node")
        => /\ dbUP' = dbUP
           /\ dbNodes' = dbNodes
           /\ dbMissions' = dbMissions
           /\ dbStories' = dbStories
           /\ eng'[out'.e].buffer = eng[out'.e].buffer]_vars

\* C9's case: make_choice failed for want of a node although the player
\* has a story and has made choices in it.
C9_Witness ==
    /\ out.op = "make_choice" /\ out.result = "no_valid_node"
    /\ dbUP.current_story_id \in dbStories
    /\ dbUP.node_count > 0

\* the last n entries of s
LastN(s, n) == SubSeq(s, Max(1, Len(s) - n + 1), Len(s))

\* C10: the history buffer never holds more than 3 entries and is always
\* the last 3 nodes the GameState departed from, oldest first.
C10_BufferIsLastThreeDeparted ==
    \A e \in Engines :
        /\ Len(eng[e].buffer) <= 3
        /\ eng[e].buffer = LastN(eng[e].departed, 3)

\* C10's case: more than 3 transitions in one GameState.
C10_Witness ==
    /\ Len(eng[1].departed) > 3
    /\ Len(eng[1].buffer) = 3

\* C11: the first successful choice of a started story (the resolved node is
\* the story's root R and has no child yet) creates a node with parent R,
\* makes node_count 1, leaves exactly <<R>> in the history buffer and moves
\* current_node_id to the new node.
C11_FirstChoiceOfAStory ==
    [][(out'.op = "make_choice" /\ out'.result = "ok"
           /\ pc[out'.e] = "generating"
           /\ dbNodes[out'.cur].parent_node_id = 0
           /\ ChildrenOf(out'.cur) = {})
        => /\ out'.node \in DOMAIN dbNodes' \ NodeIds
           /\ dbNodes'[out'.node].parent_node_id = out'.cur
           /\ dbUP'.node_count = 1
           /\ eng'[out'.e].buffer = <<out'.cur>>
           /\ dbUP'.current_node_id = out'.node]_vars

\* C12: right after a successful start_new_story the persisted node_count
\* is 0 and current_story_id, current_node_id name the new story and its
\* root.
C12_StartResetsCount ==
    (out.op = "start_new_story" /\ out.result = "ok")
        => /\ dbUP.node_count = 0
           /\ dbUP.current_story_id = out.story
           /\ dbUP.current_node_id = out.node
           /\ out.node \in NodeIds
           /\ dbNodes[out.node].story_id = out.story
           /\ dbNodes[out.node].parent_node_id = 0

\* a step in which a transition to node out'.node succeeded and was written
\* to the player's row
Transitioned(o) ==
    \/ o.op = "make_choice" /\ o.result = "ok"
    \/ o.op = "transition_to_node" /\ o.result = "ok"

\* C13: transition_to_node with an id that names no node fails and mutates
\* nothing: the GameState's fields (history buffer, current node) and the
\* player's row (current_node_id, choice history, encountered characters,
\* last_active) are as before.
C13_InvalidNodeMutatesNothing ==
    [][(out'.op = "transition_to_node" /\ out'.result = "invalid_node")
        => /\ eng'[out'.e] = eng[out'.e]
           /\ dbUP' = dbUP
           /\ dbNodes' = dbNodes]_vars

\* C13's case: the transition was refused for an id of no node while the
\* GameState had a current node to push and a history to keep.
C13_Witness ==
    /\ out.op = "transition_to_node" /\ out.result = "invalid_node"
    /\ out.node \notin NodeIds
    /\ eng[out.e].current_node # 0
    /\ eng[out.e].buffer # <<>>

\* C14 as stated: a successful transition to n appends n to the choice
\* history unless n is the history's last entry.
C14_AppendUnlessLast ==
    [][Transitioned(out')
        => LET h == dbUP.choice_history
               n == out'.node
           IN  dbUP'.choice_history =
                   IF h # <<>> /\ h[Len(h)] = n THEN h ELSE Append(h, n)]_vars

\* C14 amended: a successful transition to n appends n to the choice
\* history unless n occurs anywhere in it: a node visited earlier is not
\* appended again, and two transitions in a row to one node append it once.
C14_AppendUnlessPresent ==
    [][Transitioned(out')
        => LET h == dbUP.choice_history
               n == out'.node
           IN  dbUP'.choice_history =
                   IF \E i \in 1..Len(h) : h[i] = n THEN h ELSE Append(h, n)]_vars

\* C14's case: a transition went back to a node that is in the choice
\* history but is not its last entry, and the history kept its length.
C14_Witness ==
    LET h == dbUP.choice_history
    IN  /\ out.op = "transition_to_node" /\ out.result = "ok"
        /\ Len(h) >= 2
        /\ h[Len(h)] # out.node
        /\ \E i \in 1..(Len(h) - 1) : h[i] = out.node
        /\ \A i, j \in 1..Len(h) : h[i] = h[j] => i = j

\* C15: a transition never changes an existing entry of the encountered-
\* character map, whatever the arriving node lists; it adds an entry, with
\* the arriving node's snapshot, for each listed character that has none.
C15_EncounteredWriteOnce ==
    [][Transitioned(out')
        => \A c \in Chars :
              /\ dbUP.encountered[c] # 0
                    => dbUP'.encountered[c] = dbUP.encountered[c]
              /\ (dbUP.encountered[c] = 0 /\ c \in dbNodes'[out'.node].enc)
                    => dbUP'.encountered[c] = out'.node
              /\ (dbUP.encountered[c] = 0 /\ c \notin dbNodes'[out'.node].enc)
                    => dbUP'.encountered[c] = 0]_vars

\* C15's case: the current node lists two characters; the entry of one is
\* an earlier node's snapshot, kept, and the other's was added here.
C15_Witness ==
    /\ Transitioned(out)
    /\ dbUP.current_node_id = out.node
    /\ dbNodes[out.node].enc = {1, 2}
    /\ \E c, d \in Chars :
          /\ dbUP.encountered[c] \notin {0, out.node}
          /\ dbUP.encountered[d] = out.node

\* The number of times mission id mid occurs in the list s
Occurrences(s, mid) == Cardinality({i \in 1..Len(s) : s[i] = mid})

\* C16: each mission id occurs at most once across the session's active,
\* completed and failed mission lists taken together.
C16_MissionListsDisjoint ==
    \A mid \in MissionIds :
        Occurrences(dbUP.active_missions, mid)
          + Occurrences(dbUP.completed_missions, mid)
          + Occurrences(dbUP.failed_missions, mid) <= 1

Terminal == {"completed", "failed"}

\* C17: complete_mission or fail_mission on a mission whose status is
\* already completed or failed returns false and changes neither a mission
\* row nor the player's lists and balance.
C17_TerminalCallIsNoOp ==
    [][(/\ out'.op \in {"complete_mission", "fail_mission"}
        /\ out'.mission \in MissionIds
        /\ dbMissions[out'.mission].status \in Terminal)
       => (/\ out'.result = "false"
           /\ dbMissions' = dbMissions
           /\ dbUP' = dbUP)]_vars

\* complete_mission has refused a mission that it completed and credited
C17_Witness ==
    /\ out.op = "complete_mission"
    /\ out.result = "false"
    /\ out.mission \in MissionIds
    /\ dbMissions[out.mission].status = "completed"
    /\ dbMissions[out.mission].credited = 1
    /\ dbUP.balance = RewardAmount
    /\ \E m \in MissionIds : dbMissions[m].status = "failed"

\* C18: a mission that is completed or failed never changes status again.
C18_TerminalStatusIsFinal ==
    [][\A mid \in MissionIds :
          dbMissions[mid].status \in Terminal
            => dbMissions'[mid].status = dbMissions[mid].status]_vars

\* C19: complete_mission on an active mission returns true and leaves the
\* mission completed with progress 100, its id out of the player's active
\* list and in the completed list.
C19_CompleteMovesMission ==
    [][(/\ out'.op = "complete_mission"
        /\ out'.mission \in MissionIds
        /\ dbMissions[out'.mission].status = "active")
       => (/\ out'.result = "true"
           /\ dbMissions'[out'.mission].status = "completed"
           /\ dbMissions'[out'.mission].progress = 100
           /\ ~InSeq(out'.mission, dbUP'.active_missions)
           /\ InSeq(out'.mission, dbUP'.completed_missions))]_vars

\* complete_mission has completed one of two missions that
\* create_mission_from_story had put on the active list
C19_Witness ==
    /\ nextStory = 1
    /\ out.op = "complete_mission"
    /\ out.result = "true"
    /\ dbMissions[out.mission].status = "completed"
    /\ dbUP.completed_missions = <<out.mission>>
    /\ Len(dbUP.active_missions) = 1
    /\ dbMissions[dbUP.active_missions[1]].progress = 50

\* The step is a successful completion of an active mission, by
\* complete_mission itself or through GameEngine.update_mission
Completes ==
    /\ out'.op \in {"complete_mission", "update_mission"}
    /\ out'.mission \in MissionIds
    /\ dbMissions[out'.mission].status = "active"
    /\ dbMissions'[out'.mission].status = "completed"

\* C20: the successful completion of a mission adds exactly its reward to
\* the balance (the bucket starts at the reward if it did not exist), no
\* other call changes the balance, and no mission is credited twice.
C20_RewardCreditedOnce ==
    [][/\ IF Completes
          THEN dbUP'.balance =
                 IF dbUP.balance = NoBucket
                 THEN dbMissions[out'.mission].reward
                 ELSE dbUP.balance + dbMissions[out'.mission].reward
          ELSE dbUP'.balance = dbUP.balance
       /\ \A mid \in DOMAIN dbMissions' : dbMissions'[mid].credited <= 1]_vars

\* both missions are completed and credited, the second one into the bucket
\* the first one created, and further calls have been made on it since
C20_Witness ==
    /\ dbUP.balance = 2 * RewardAmount
    /\ Len(dbUP.completed_missions) >= 2
    /\ \A mid \in MissionIds : dbMissions[mid].credited = 1
    /\ out.op \in {"complete_mission", "fail_mission", "update_mission"}
    /\ out.result \in {"false", "updated"}

\* C21: fail_mission on an active mission returns true and leaves the
\* mission failed with its progress unchanged, its id out of the player's
\* active list and in the failed list, and the balance unchanged.
C21_FailMovesMission ==
    [][(/\ out'.op = "fail_mission"
        /\ out'.mission \in MissionIds
        /\ dbMissions[out'.mission].status = "active")
       => (/\ out'.result = "true"
           /\ dbMissions'[out'.mission].status = "failed"
           /\ dbMissions'[out'.mission].progress
                 = dbMissions[out'.mission].progress
           /\ ~InSeq(out'.mission, dbUP'.active_missions)
           /\ InSeq(out'.mission, dbUP'.failed_missions)
           /\ dbUP'.balance = dbUP.balance)]_vars

\* fail_mission has failed a mission of progress 50 that was on the active
\* list, after the other mission's reward was credited
C21_Witness ==
    /\ nextStory = 1
    /\ out.op = "fail_mission"
    /\ out.result = "true"
    /\ dbMissions[out.mission].status = "failed"
    /\ dbMissions[out.mission].progress = 50
    /\ dbUP.failed_missions = <<out.mission>>
    /\ dbUP.active_missions = <<>>
    /\ dbUP.balance = RewardAmount

\* A successful make_choice whose segment carried the mission signal sg
\* for a mission that was active
ChoiceWithSignal(sg) ==
    /\ out'.op = "make_choice"
    /\ out'.result = "ok"
    /\ out'.signal = sg
    /\ out'.mission \in MissionIds
    /\ dbMissions[out'.mission].status = "active"

\* C22: a choice whose mission signal is 'progressed' leaves the active
\* mission active, and on the active list if it was there, whatever
\* progress it reaches.
C22_ProgressAloneNeverCompletes ==
    [][ChoiceWithSignal("progressed")
       => (/\ dbMissions'[out'.mission].status = "active"
           /\ InSeq(out'.mission, dbUP.active_missions)
                 => InSeq(out'.mission, dbUP'.active_missions))]_vars

\* C23: get_enhanced_context never raises: for a missing node or a failing
\* lookup it returns the empty text, otherwise the scenes of the node's
\* nearest ancestors; and it changes nothing of the store or the GameState.
C23_ContextNeverFails ==
    [][out'.op = "get_enhanced_context"
       => (/\ out'.result \in {"empty", "text"}
           /\ (out'.node \notin NodeIds) => out'.text = <<>>
           /\ \A i \in 1..Len(out'.text) :
                 /\ out'.text[i] \in NodeIds
                 /\ dbNodes[out'.text[i]].story_id
                      = dbNodes[out'.node].story_id
           /\ Len(out'.text) <= MaxAncestors
           /\ UNCHANGED <<dbStories, dbNodes, dbMissions, dbUP, dbUPOther,
                          eng, pc, loc, nextStory, nextNode, nextMission,
                          clock>>)]_vars

\* the context of a node with more than MaxAncestors ancestors was returned
C23_Witness ==
    /\ out.op = "get_enhanced_context"
    /\ out.result = "text"
    /\ out.node = ContextNodes
    /\ Len(out.text) = MaxAncestors
    /\ out.text[MaxAncestors] = dbNodes[out.node].parent_node_id

\* The node reached from n by following parent_node_id k times (0: past a
\* root or a missing node)
RECURSIVE Up(_, _)
Up(n, k) ==
    IF k = 0 \/ n \notin NodeIds THEN n
    ELSE Up(dbNodes[n].parent_node_id, k - 1)

\* C24: the nodes of each story form a tree: a node with a parent has it in
\* its own story, following parents from any node ends at a root (no node
\* is its own ancestor), and each story has exactly one root.
C24_StoryNodesFormTree ==
    /\ \A n \in NodeIds :
          /\ dbNodes[n].story_id \in dbStories
          /\ dbNodes[n].parent_node_id # 0 =>
                /\ dbNodes[n].parent_node_id \in NodeIds
                /\ dbNodes[dbNodes[n].parent_node_id].story_id
                     = dbNodes[n].story_id
          /\ Up(n, Cardinality(NodeIds)) = 0
    /\ \A s \in dbStories : Cardinality(RootNodes(dbNodes, s)) = 1

\* two stories, each with its root and a node that make_choice created
C24_Witness ==
    /\ Cardinality(dbStories) = 2
    /\ \A s \in dbStories :
          \E n \in NodeIds : /\ dbNodes[n].story_id = s
                              /\ dbNodes[n].parent_node_id # 0

\* The kind of each failure of a choice submission: no node could be
\* resolved; the generation call raised or timed out; the segment was
\* invalid or empty
FailureKind(result) ==
    CASE result = "no_valid_node" -> "session_corrupted"
      [] result = "generation_failed" -> "retryable"
      [] result = "bad_response" -> "content_generation_failed"
      [] OTHER -> "other"

\* C25: the error a failed make_choice reports is not the one reported for
\* a failure of another kind.
C25_ErrorKindsDistinct ==
    (out.op = "make_choice" /\ out.result \in FailureResults)
      => \A r \in FailureResults :
            FailureKind(r) # FailureKind(out.result)
              => RaisedError(r) # RaisedError(out.result)

\* C26: an operation invoked with another user's id on a mission of the
\* player changes neither the mission nor that user's lists and balance,
\* and the player's own operations leave the other user's row alone.
C26_UsersAreIndependent ==
    [][IF out'.op \in {"complete_mission_other", "fail_mission_other",
                       "update_mission_other"}
       THEN /\ dbMissions' = dbMissions
            /\ dbUPOther' = dbUPOther
            /\ dbUP' = dbUP
       ELSE dbUPOther' = dbUPOther]_vars

\* The fields of the player's row that make up the session state
SessionState(up) ==
    <<up.current_story_id, up.current_node_id, up.node_count,
      up.active_missions, up.completed_missions, up.failed_missions,
      up.choice_history, up.encountered>>

\* C27: a start_new_story that fails leaves the player's persisted session
\* state as it was and persists no story, node or mission.
C27_FailedStartChangesNothing ==
    [][(out'.op = "start_new_story" /\ out'.result # "ok")
       => (/\ SessionState(dbUP') = SessionState(dbUP)
           /\ dbStories' = dbStories
           /\ dbNodes' = dbNodes
           /\ dbMissions' = dbMissions)]_vars

\* C28: a successful choice whose mission signal is 'unchanged' leaves the
\* progress of every mission as it was, and one whose signal is 'progressed'
\* changes the active mission's progress by the signal's 25 only.
C28_ProgressDrivenBySignalOnly ==
    [][(out'.op = "make_choice" /\ out'.result = "ok")
       => /\ out'.signal = "unchanged"
               => \A mid \in MissionIds :
                     dbMissions'[mid].progress = dbMissions[mid].progress
          /\ ChoiceWithSignal("progressed")
               => dbMissions'[out'.mission].progress
                    = Min(100, dbMissions[out'.mission].progress + 25)]_vars

\* C29: a successful choice whose mission signal is 'failed' leaves the
\* active mission failed, off the active list and on the failed list; one
\* whose signal is 'completed' leaves it completed and on the completed list.
C29_SignalEndsMission ==
    [][/\ ChoiceWithSignal("failed")
            => /\ dbMissions'[out'.mission].status = "failed"
               /\ ~InSeq(out'.mission, dbUP'.active_missions)
               /\ InSeq(out'.mission, dbUP'.failed_missions)
       /\ ChoiceWithSignal("completed")
            => /\ dbMissions'[out'.mission].status = "completed"
               /\ InSeq(out'.mission, dbUP'.completed_missions)]_vars

\* C30: a mission's id is on the player's active list exactly when its
\* status is active, on the completed list exactly when it is completed and
\* on the failed list exactly when it is failed.
C30_StatusAgreesWithLists ==
    \A mid \in MissionIds :
        /\ InSeq(mid, dbUP.active_missions)
              <=> dbMissions[mid].status = "active"
        /\ InSeq(mid, dbUP.completed_missions)
              <=> dbMissions[mid].status = "completed"
        /\ InSeq(mid, dbUP.failed_missions)
              <=> dbMissions[mid].status = "failed"

\* C31: every mission's progress is an integer from 0 to 100.
C31_ProgressInRange ==
    \A mid \in MissionIds : dbMissions[mid].progress \in 0..100

\* update_mission was called with a value below 0 on a mission that choices
\* and updates had moved before, and left it at 0
C31_Witness ==
    /\ out.op = "update_mission"
    /\ out.value < 0
    /\ out.mission \in MissionIds
    /\ dbMissions[out.mission].progress = 0
    /\ dbMissions[out.mission].nupd = ProgressUpdates
    /\ nextNode > 2

\* C32: a mission's progress_updates log is append-only: it never gets
\* shorter and every entry in it keeps its position and content.
C32_LogIsAppendOnly ==
    [][\A mid \in MissionIds :
          /\ Len(dbMissions'[mid].log) >= Len(dbMissions[mid].log)
          /\ SubSeq(dbMissions'[mid].log, 1, Len(dbMissions[mid].log))
                = dbMissions[mid].log]_vars

\* a mission's log holds its assignment, a progress update and its failure,
\* and the other mission's log grew up to its completion
C32_Witness ==
    \E m, n \in MissionIds :
       /\ dbMissions[m].log
            = <<Entry("active", 0), Entry("update", 50), Entry("failed", -1)>>
       /\ Len(dbMissions[n].log) = 3
       /\ dbMissions[n].log[3] = Entry("completed", 100)

\* C33: the relationship level toward a character is 2 for every completed
\* mission it gave, -3 for every completed mission that targets it and -1 for
\* every failed mission it gave, added up from 0 without clamping; a mission
\* that names no giver or no target changes nothing on that side.
GivenBy(c, status) ==
    Cardinality({m \in MissionIds : /\ dbMissions[m].giver_id = c
                                    /\ dbMissions[m].status = status})

Targeting(c, status) ==
    Cardinality({m \in MissionIds : /\ dbMissions[m].target_id = c
                                    /\ dbMissions[m].status = status})

C33_RelationshipIsSumOfOutcomes ==
    \A c \in Chars :
       dbUP.rel[c] = 2 * GivenBy(c, "completed") - 3 * Targeting(c, "completed")
                       - GivenBy(c, "failed")

C33_Witness ==
    /\ dbUP.rel[1] = -4
    /\ dbUP.rel[2] = 2
    /\ GivenBy(1, "failed") = 1
    /\ Targeting(1, "completed") = 1

\* C34: within one make_choice nothing is committed before the final commit
\* that makes the new current_node_id visible: while the call is between its
\* start and that commit, the stored session row is the one it started from.
C34_FinalCommitIsOnlyCommit ==
    \A e \in Engines :
       pc[e] \in {"resolved", "generating"}
          => dbUP.node_count = loc[e].pre_count

\* C35: listeners are notified of committed state only: the notifications of
\* a make_choice all come from the update_state call that follows its final
\* commit, and a make_choice that fails has notified no listener.
C35_NotifiedAfterFinalCommitOnly ==
    out.op = "make_choice"
       => /\ \A i \in 1..Len(out.notes) : out.notes[i].site = "make_choice"
          /\ out.result \in FailureResults => out.notes = <<>>

\* C40: update_state and load_state call on_state_changed once on every
\* registered listener, in registration order, however often a listener was
\* added; a removed listener is no longer in the registry and so is notified
\* no more; removing a listener that is not registered changes nothing.
Recipients(notes) == [i \in 1..Len(notes) |-> notes[i].to]

NoDuplicates(ls) == \A i, j \in 1..Len(ls) : ls[i] = ls[j] => i = j

C40_EachListenerOnceInOrder ==
    [][/\ NoDuplicates(listeners')
       /\ (out'.op \in {"update_state", "load_state"} /\ out'.result = "ok")
             => /\ Recipients(out'.notes) = listeners
                /\ listeners' = listeners
       /\ out'.op = "add_listener"
             => /\ InSeq(out'.listener, listeners')
                /\ SubSeq(listeners', 1, Len(listeners)) = listeners
                /\ InSeq(out'.listener, listeners) => listeners' = listeners
       /\ out'.op = "remove_listener"
             => /\ ~InSeq(out'.listener, listeners')
                /\ ~InSeq(out'.listener, listeners) => listeners' = listeners
                /\ \A l \in Listeners \ {out'.listener} :
                      InSeq(l, listeners) <=> InSeq(l, listeners')]_vars

C40_Witness ==
    /\ out.op = "update_state"
    /\ Recipients(out.notes) = <<"unity2", "web", "unity1">>
    /\ listeners = <<"unity2", "web", "unity1">>

\* C36: the recent-history section lists the nearest ancestors of the node:
\* min(depth, 5) of them, never the node itself, oldest first; and the walk
\* makes at most 5 lookups even over parent pointers that form a cycle.
RECURSIVE Depth(_)
Depth(n) ==
    IF n \notin NodeIds \/ dbNodes[n].parent_node_id \notin NodeIds THEN 0
    ELSE 1 + Depth(dbNodes[n].parent_node_id)

IsScene(l) == l.kind = "SCENE"

CyclicNodes == (1 :> [parent_node_id |-> 2]) @@ (2 :> [parent_node_id |-> 1])

C36_HistoryIsNearestAncestors ==
    /\ (/\ out.op = "get_enhanced_context"
        /\ out.node \in NodeIds
        /\ out.result = "text" \/ Depth(out.node) = 0)
          => LET scenes == SelectSeq(out.parts, IsScene)
             IN  /\ Len(scenes) = Min(Depth(out.node), MaxAncestors)
                 /\ \A i \in 1..Len(scenes) :
                       /\ scenes[i].i = i
                       /\ scenes[i].node = Up(out.node, Len(scenes) + 1 - i)
                       /\ scenes[i].node # out.node
    /\ Ancestors(CyclicNodes, 2, 0) = <<2, 1, 2, 1, 2>>

C36_Witness ==
    /\ out.op = "get_enhanced_context"
    /\ Depth(out.node) = MaxAncestors + 1
    /\ Len(SelectSeq(out.parts, IsScene)) = MaxAncestors
    /\ SelectSeq(out.parts, IsScene)[1].node = Up(out.node, MaxAncestors)
    /\ Up(out.node, MaxAncestors + 1) \in RootNodes(dbNodes, dbNodes[out.node].story_id)

\* C37: the context has its sections in the order key plot points, recent
\* story history, current mission, and a section with nothing to show (no
\* key node found, no ancestor, no mission_info in the node's metadata) is
\* left out with its header.
HeaderKinds == <<"KEY PLOT POINTS:", "RECENT STORY HISTORY:", "CURRENT MISSION:">>

IsHeader(l) == InSeq(l.kind, HeaderKinds)

Kinds(lines) == [i \in 1..Len(lines) |-> lines[i].kind]

\* The header of the section that line i of parts belongs to
SectionOf(parts, i) ==
    LET hs == {j \in 1..i : IsHeader(parts[j])}
    IN  IF hs = {} THEN "none"
        ELSE parts[CHOOSE j \in hs : \A k \in hs : k <= j].kind

\* The existing nodes that an active plot arc of node n's story lists
ActiveKeyNodes(n) ==
    {k \in NodeIds : \E a \in dbArcs : /\ a.status = "active"
                                        /\ a.story_id = dbNodes[n].story_id
                                        /\ k \in a.key_nodes}

KeepIf(keep, x) == IF keep THEN <<x>> ELSE <<>>

C37_SectionsInOrderOrOmitted ==
    (out.op = "get_enhanced_context" /\ out.node \in NodeIds)
       => /\ Kinds(SelectSeq(out.parts, IsHeader))
               = KeepIf(ActiveKeyNodes(out.node) # {}, HeaderKinds[1])
                 \o KeepIf(Depth(out.node) > 0, HeaderKinds[2])
                 \o KeepIf(dbNodes[out.node].mission_info, HeaderKinds[3])
          /\ \A i \in 1..Len(out.parts) :
                LET kind == out.parts[i].kind
                IN  /\ kind = "MOMENT" => SectionOf(out.parts, i) = HeaderKinds[1]
                    /\ kind = "SCENE" => SectionOf(out.parts, i) = HeaderKinds[2]
                    /\ kind \in {"Title:", "Objective:", "Status:", "Progress:"}
                          => SectionOf(out.parts, i) = HeaderKinds[3]
                    /\ SectionOf(out.parts, i) # "none"
                    /\ IsHeader(out.parts[i])
                          => /\ i < Len(out.parts)
                             /\ out.parts[i + 1].kind # ""
                             /\ i > 1 => out.parts[i - 1].kind = ""
          /\ out.parts # <<>> => out.parts[Len(out.parts)].kind = ""

C37_Witness ==
    /\ out.op = "get_enhanced_context"
    /\ Kinds(SelectSeq(out.parts, IsHeader)) = HeaderKinds
    /\ \E r \in NodeIds :
          /\ dbNodes[r].parent_node_id = 0
          /\ dbNodes[r].story_id = dbNodes[out.node].story_id
          /\ ~dbNodes[r].mission_info

\* C38: the key-plot-point section holds exactly the existing nodes listed by
\* the active plot arcs of the node's story, each once: inactive arcs and
\* arcs of another story add nothing, and a listed id without a node is
\* skipped.
IsMoment(l) == l.kind = "MOMENT"

C38_KeyPointsAreActiveArcNodes ==
    (out.op = "get_enhanced_context" /\ out.node \in NodeIds)
       => LET moments == SelectSeq(out.parts, IsMoment)
          IN  /\ {moments[i].node : i \in 1..Len(moments)}
                   = ActiveKeyNodes(out.node)
              /\ Len(moments) = Cardinality(ActiveKeyNodes(out.node))
              /\ \A i \in 1..Len(moments) : moments[i].i = i

C38_Witness ==
    /\ out.op = "get_enhanced_context"
    /\ Len(SelectSeq(out.parts, IsMoment)) = 1
    /\ \E a \in dbArcs :
          /\ a.status = "active"
          /\ a.story_id = dbNodes[out.node].story_id
          /\ \E k \in a.key_nodes : k \notin NodeIds

\* C39: each entry carries a prefix of its own node's text: at most the first
\* 200 characters for an ancestor and the first 300 for a key plot point
\* (then "..." if the text is longer), so that the history section, of at
\* most 5 entries, is bounded whatever the stored texts are.
C39_EntriesAreTruncated ==
    (out.op = "get_enhanced_context" /\ out.node \in NodeIds)
       => /\ \A i \in 1..Len(out.parts) :
                LET l == out.parts[i]
                    limit == IF l.kind = "SCENE" THEN SceneChars ELSE MomentChars
                IN  l.kind \in {"SCENE", "MOMENT"}
                       => /\ l.chars = Min(dbNodes[l.node].narrative_text, limit)
                          /\ l.chars <= limit
                          /\ l.dots <=> dbNodes[l.node].narrative_text > limit
          /\ Len(SelectSeq(out.parts, IsScene)) <= MaxAncestors

C39_Witness ==
    /\ out.op = "get_enhanced_context"
    /\ \E i, j \in 1..Len(out.parts) :
          /\ out.parts[i].kind = "MOMENT" /\ out.parts[j].kind = "SCENE"
          /\ out.parts[i].node = out.parts[j].node
          /\ dbNodes[out.parts[i].node].narrative_text = MomentChars + 1
          /\ out.parts[i].chars = MomentChars /\ out.parts[i].dots
          /\ out.parts[j].chars = SceneChars /\ out.parts[j].dots

=============================================================================
